---- MODULE Spec2Model ----
(***************************************************************************)
(* Model of render_views.py: look_at, load_glb_with_pygltflib and          *)
(* render_glb_views.  Floating-point values are fixed-point integers with  *)
(* Scale units per 1.0; a NaN vector is carried explicitly.                *)
(***************************************************************************)
EXTENDS Integers, Sequences, FiniteSets, TLC

\* ---------------------------------------------------------------- bounds
MaxViews == 3
MaxRuns == 2
GridMax == 1
Scale == 100

\* ------------------------------------------------------------ arithmetic
Abs(a) == IF a < 0 THEN -a ELSE a

Sgn(a) == IF a < 0 THEN -1 ELSE IF a > 0 THEN 1 ELSE 0

\* division rounding to the nearest integer
RDiv(a, b) == Sgn(a) * Sgn(b) * ((2 * Abs(a) + Abs(b)) \div (2 * Abs(b)))

Min2(a, b) == IF a < b THEN a ELSE b

RECURSIVE SqrtSearch(_, _, _)
SqrtSearch(n, lo, hi) ==
  IF lo >= hi THEN lo
  ELSE LET mid == (lo + hi + 1) \div 2
       IN IF mid * mid <= n THEN SqrtSearch(n, mid, hi)
                            ELSE SqrtSearch(n, lo, mid - 1)

\* square root rounded to the nearest integer
Sqrt(n) ==
  LET r == SqrtSearch(n, 0, Min2(n, 46340))
  IN IF n - r * r > r THEN r + 1 ELSE r

\* ------------------------------------------------- vectors (numpy arrays)
FVec(x, y, z) == [nan |-> FALSE, c |-> <<x, y, z>>]

NaNVec == [nan |-> TRUE, c |-> <<0, 0, 0>>]

Dot(a, b) == a[1] * b[1] + a[2] * b[2] + a[3] * b[3]

NormSq(a) == Dot(a, a)

\* a - b
VSub(a, b) ==
  IF a.nan \/ b.nan THEN NaNVec
  ELSE FVec(a.c[1] - b.c[1], a.c[2] - b.c[2], a.c[3] - b.c[3])

\* a + b
VAdd(a, b) ==
  IF a.nan \/ b.nan THEN NaNVec
  ELSE FVec(a.c[1] + b.c[1], a.c[2] + b.c[2], a.c[3] + b.c[3])

\* -a
VNeg(a) == IF a.nan THEN NaNVec ELSE FVec(-a.c[1], -a.c[2], -a.c[3])

\* np.cross(a, b), the product rescaled by unit
CrossU(a, b, unit) ==
  IF a.nan \/ b.nan THEN NaNVec
  ELSE FVec(RDiv(a.c[2] * b.c[3] - a.c[3] * b.c[2], unit),
            RDiv(a.c[3] * b.c[1] - a.c[1] * b.c[3], unit),
            RDiv(a.c[1] * b.c[2] - a.c[2] * b.c[1], unit))

\* np.linalg.norm(a), for a not NaN
Norm(a) == Sqrt(NormSq(a.c))

\* a / np.linalg.norm(a): 0/0 is NaN in every component, no exception
Normalize(a) ==
  IF a.nan THEN NaNVec
  ELSE IF Norm(a) = 0 THEN NaNVec
  ELSE FVec(RDiv(a.c[1] * Scale, Norm(a)),
            RDiv(a.c[2] * Scale, Norm(a)),
            RDiv(a.c[3] * Scale, Norm(a)))

\* ------------------------------------------------------------- look_at
\* eye, target in fixed point; up in plain integers (np.array([0, 0, 1])).
\* The result is the 4x4 matrix given by its columns s, u, -f and eye.
look_at(eye, target, up) ==
  LET f == Normalize(VSub(target, eye))
      s == Normalize(CrossU(f, up, 1))
      u == CrossU(s, f, Scale)
  IN [s |-> s, u |-> u, nf |-> VNeg(f), eye |-> eye]

PoseHasNaN(m) == m.s.nan \/ m.u.nan \/ m.nf.nan \/ m.eye.nan

\* -------------------------------------------------------- np.sin, np.cos
\* sin(pi * a / b) for 0 <= a <= b, as a rational approximation that is
\* exact at 0, pi/6, pi/2, 5pi/6 and pi and below 1 everywhere else; it is
\* rounded down, so that it is Scale only where the sine is exactly 1
SinHalf(a, b) == (16 * a * (b - a) * Scale) \div (5 * b * b - 4 * a * (b - a))

\* np.sin(pi * p / q) in fixed point, p >= 0, q > 0
SinPi(p, q) ==
  LET r == p % (2 * q)
  IN IF r <= q THEN SinHalf(r, q) ELSE -SinHalf(r - q, q)

\* np.cos(x) = sin(x + pi/2)
CosPi(p, q) == SinPi(2 * p + q, 2 * q)

\* ------------------------------------------------- camera trajectory
\* the denominator of an elevation: elevations are in units of pi/(8*Scale)
PhiDen == 8 * Scale

\* an elevation with amplitude pi/4 instead of pi/8
ElevationWide(i, n) == 2 * Scale + 2 * SinPi(3 * i, n)

\* phi = np.pi / 4 + (np.pi / 8) * np.sin(3 * np.pi * i / num_views)
Elevation(i, n) == 2 * Scale + SinPi(3 * i, n)

\* camera_pos = center + camera_distance * (sin phi cos theta,
\*                                           sin phi sin theta, cos phi)
CameraPos(i, n, ctr, dist) ==
  LET ph == Elevation(i, n)
      sp == SinPi(ph, PhiDen)
      cp == CosPi(ph, PhiDen)
      ct == CosPi(2 * i, n)
      st == SinPi(2 * i, n)
  IN VAdd(ctr, FVec(RDiv(RDiv(dist * sp, Scale) * ct, Scale),
                    RDiv(RDiv(dist * sp, Scale) * st, Scale),
                    RDiv(dist * cp, Scale)))

up_vector == FVec(0, 0, 1)

\* ------------------------------------------------------- output names
RECURSIVE Digits(_)
Digits(n) == IF n < 10 THEN <<n>> ELSE Digits(n \div 10) \o <<n % 10>>

RECURSIVE ZeroPad(_, _)
ZeroPad(d, w) == IF Len(d) >= w THEN d ELSE ZeroPad(<<0>> \o d, w)

\* f"{i:04d}"
Fmt04(i) == ZeroPad(Digits(i), 4)

\* output_dir / f"image_{i:04d}.png", as the name inside output_dir
ImgName(i) == <<"image_", Fmt04(i), ".png">>

\* a file_path that names the image of the following index
FilePathShifted(i) == <<"./", "image_", Fmt04(i + 1), ".png">>

\* f"./image_{i:04d}.png"
FilePath(i) == <<"./", "image_", Fmt04(i), ".png">>

\* the file of output_dir that a manifest file_path resolves to
Resolve(path) == IF path[1] = "./" THEN Tail(path) ELSE path

\* a range that stops one index early
RangeShort(n) == 0 .. (n - 2)

\* range(num_views)
Range(n) == 0 .. (n - 1)

\* an iteration that skips every other index
NextIndexSkip(i) == i + 2

\* the index after i in range(num_views)
NextIndex(i) == i + 1

\* ------------------------------------------------ load_glb_with_pygltflib
Origin == <<0, 0, 0>>

\* sample position buffers (x, y, z triples)
Tri == << <<0, 0, 0>>, <<1, 0, 0>>, <<0, 1, 0>> >>

Same3 == << <<1, 1, 1>>, <<1, 1, 1>>, <<1, 1, 1>> >>

Quad == << <<0, 0, 0>>, <<1, 0, 0>>, <<1, 1, 0>>, <<0, 1, 1>> >>

Six == << <<0, 0, 0>>, <<1, 0, 0>>, <<0, 1, 0>>,
          <<0, 0, 1>>, <<1, 0, 1>>, <<0, 1, 1>> >>

\* an asset: whether the POSITION accessor has a bufferView and its data;
\* whether the primitive has indices ("none"), an index accessor without a
\* bufferView ("nobuf") or an index buffer ("buffer") and its data
Assets ==
  [posPresent : {TRUE}, posData : {Tri, Same3, Quad, Six},
   idxKind : {"none", "nobuf", "buffer"}, idxData : {<<0, 1, 2>>}]
  \cup
  [posPresent : {FALSE}, posData : {<<>>},
   idxKind : {"none", "nobuf", "buffer"}, idxData : {<<0, 0, 0>>}]

\* np.arange(n)
Arange(n) == [k \in 1..n |-> k - 1]

\* a.reshape(-1, 3): ValueError unless the length is a multiple of 3
Reshape3(a) ==
  IF Len(a) % 3 # 0 THEN [ok |-> FALSE, rows |-> <<>>]
  ELSE [ok |-> TRUE,
        rows |-> [k \in 1..(Len(a) \div 3) |->
                    <<a[3 * k - 2], a[3 * k - 1], a[3 * k]>>]]

\* the vertices read from the position buffer, or the fallback point
LoadVertices(a) == IF a.posPresent THEN a.posData ELSE <<Origin>>

\* the faces read from the index buffer, or the sequential fallback
LoadIndices(a) ==
  IF a.idxKind = "buffer" THEN Reshape3(a.idxData)
  ELSE Reshape3(Arange(Len(LoadVertices(a))))

\* load_glb_with_pygltflib(glb_path): the mesh, or the exception raised
load_glb_with_pygltflib(a) ==
  IF LoadIndices(a).ok
  THEN [ok |-> TRUE, err |-> "none",
        vertices |-> LoadVertices(a), faces |-> LoadIndices(a).rows]
  ELSE [ok |-> FALSE, err |-> "ValueError", vertices |-> <<>>, faces |-> <<>>]

\* ------------------------------------------------------- bounding volume
SeqMin(vs, k) == CHOOSE m \in {vs[j][k] : j \in 1..Len(vs)} :
                   \A j \in 1..Len(vs) : m <= vs[j][k]

SeqMax(vs, k) == CHOOSE m \in {vs[j][k] : j \in 1..Len(vs)} :
                   \A j \in 1..Len(vs) : m >= vs[j][k]

\* mesh.bounds: component-wise minimum and maximum, in fixed point
Bounds(vs) ==
  << FVec(SeqMin(vs, 1) * Scale, SeqMin(vs, 2) * Scale, SeqMin(vs, 3) * Scale),
     FVec(SeqMax(vs, 1) * Scale, SeqMax(vs, 2) * Scale, SeqMax(vs, 3) * Scale) >>

\* center = (bounds[0] + bounds[1]) / 2
Center(vs) ==
  LET t == VAdd(Bounds(vs)[1], Bounds(vs)[2])
  IN FVec(RDiv(t.c[1], 2), RDiv(t.c[2], 2), RDiv(t.c[3], 2))

\* size = np.linalg.norm(bounds[1] - bounds[0])
Size(vs) == Norm(VSub(Bounds(vs)[2], Bounds(vs)[1]))

\* camera_distance = size * 2.0
CameraDistance(vs) == Size(vs) * 2

\* ------------------------------------------------------- pyrender.Scene
\* scene.add(obj, pose): the scene with the new node
SceneAdd(sc, node) == sc \cup {node}

\* a removal that leaves the node in the scene
SceneRemoveNone(sc, node) == sc

\* scene.remove_node(node)
SceneRemove(sc, node) == sc \ {node}

Cameras(sc) == {n \in sc : n.kind = "camera"}

\* the nodes added before the loop: the mesh, the light and the fill light
BaseScene == {[id |-> 0, kind |-> "mesh"], [id |-> 1, kind |-> "light"],
              [id |-> 2, kind |-> "fill_light"]}

\* ------------------------------------------------------------ the state
VARIABLES
  pc,               \* position in render_glb_views
  runs,             \* calls of render_glb_views so far
  dirExists,        \* output_dir exists
  files,            \* the image files in output_dir
  manifest,         \* transforms.json in output_dir
  num_views,        \* argument num_views
  asset,            \* the asset at glb_path
  mesh,             \* the loaded mesh
  scene,            \* the nodes of the pyrender scene
  nextNode,         \* identity of the next node created
  center,           \* bounding-box center
  camera_distance,  \* camera distance
  i,                \* loop variable
  phi,              \* elevation of the current frame, units of pi/PhiDen
  camera_pose,      \* pose of the current frame
  camera_node,      \* camera node of the current frame
  transforms,       \* frame records accumulated
  renderLog,        \* history: the frame indices passed to renderer.render
  produced,         \* history: the image files saved by this run
  wrote,            \* history: this run wrote transforms.json
  error,            \* the exception that ended the run
  failedAt,         \* frame index at which the run failed, or -1
  la_pc, la_eye, la_target, la_up, la_result   \* a direct call of look_at

dirVars == <<dirExists, files, manifest>>

argVars == <<num_views, asset>>

sceneVars == <<scene, nextNode>>

geomVars == <<mesh, center, camera_distance>>

frameVars == <<i, phi, camera_pose, camera_node, transforms>>

histVars == <<renderLog, produced, wrote, error, failedAt>>

laVars == <<la_pc, la_eye, la_target, la_up, la_result>>

vars == <<pc, runs, dirVars, argVars, sceneVars, geomVars, frameVars,
          histVars, laVars>>

Zero == FVec(0, 0, 0)

NoPose == [s |-> Zero, u |-> Zero, nf |-> Zero, eye |-> Zero]

NoNode == [id |-> -1, kind |-> "none"]

NoMesh == [vertices |-> <<>>, faces |-> <<>>]

NoManifest == [exists |-> FALSE, frames |-> <<>>]

NoAsset == [posPresent |-> FALSE, posData |-> <<>>,
            idxKind |-> "none", idxData |-> <<0, 0, 0>>]

RunReset ==
  /\ mesh = NoMesh /\ scene = {} /\ nextNode = 0
  /\ center = Zero /\ camera_distance = 0
  /\ i = 0 /\ phi = 0 /\ camera_pose = NoPose /\ camera_node = NoNode
  /\ transforms = <<>>
  /\ renderLog = <<>> /\ produced = {} /\ wrote = FALSE
  /\ error = "none" /\ failedAt = -1

\* the locals of a run as a new call has them
RunResetNext ==
  /\ mesh' = NoMesh /\ scene' = {} /\ nextNode' = 0
  /\ center' = Zero /\ camera_distance' = 0
  /\ i' = 0 /\ phi' = 0 /\ camera_pose' = NoPose /\ camera_node' = NoNode
  /\ transforms' = <<>>
  /\ renderLog' = <<>> /\ produced' = {} /\ wrote' = FALSE
  /\ error' = "none" /\ failedAt' = -1

LAIdle ==
  /\ la_pc = "none" /\ la_eye = Zero /\ la_target = Zero /\ la_up = Zero
  /\ la_result = NoPose

Init ==
  /\ pc = "idle" /\ runs = 0
  /\ dirExists = FALSE /\ files = {} /\ manifest = NoManifest
  /\ num_views = 0 /\ asset = NoAsset
  /\ RunReset
  /\ LAIdle

\* ----------------------------------------------------- render_glb_views
\* the call, and output_dir.mkdir(parents=True, exist_ok=True)
Begin ==
  /\ pc \in {"idle", "done", "failed"}
  /\ runs < MaxRuns
  /\ runs' = runs + 1
  /\ \E n \in 1..MaxViews, a \in Assets : num_views' = n /\ asset' = a
  /\ dirExists' = TRUE
  /\ RunResetNext
  /\ pc' = "load"
  /\ UNCHANGED <<files, manifest, laVars>>

\* mesh = load_glb_with_pygltflib(glb_path) returns
LoadOk ==
  /\ pc = "load"
  /\ load_glb_with_pygltflib(asset).ok
  /\ mesh' = [vertices |-> load_glb_with_pygltflib(asset).vertices,
              faces |-> load_glb_with_pygltflib(asset).faces]
  /\ pc' = "setup"
  /\ UNCHANGED <<runs, dirVars, argVars, sceneVars, center, camera_distance,
                 frameVars, histVars, laVars>>

\* mesh = load_glb_with_pygltflib(glb_path) raises
LoadFail ==
  /\ pc = "load"
  /\ ~load_glb_with_pygltflib(asset).ok
  /\ error' = load_glb_with_pygltflib(asset).err
  /\ pc' = "failed"
  /\ UNCHANGED <<runs, dirVars, argVars, sceneVars, geomVars, frameVars,
                 renderLog, produced, wrote, failedAt, laVars>>

\* the scene with the mesh and the two lights, the camera, the renderer,
\* the bounding box and the empty list of transforms
Setup ==
  /\ pc = "setup"
  /\ scene' = SceneAdd(SceneAdd(SceneAdd({}, [id |-> 0, kind |-> "mesh"]),
                                [id |-> 1, kind |-> "light"]),
                       [id |-> 2, kind |-> "fill_light"])
  /\ nextNode' = 3
  /\ center' = Center(mesh.vertices)
  /\ camera_distance' = CameraDistance(mesh.vertices)
  /\ transforms' = <<>>
  /\ i' = 0
  /\ pc' = "loop"
  /\ UNCHANGED <<runs, dirVars, argVars, mesh, phi, camera_pose, camera_node,
                 histVars, laVars>>

\* the head of one iteration: the pose, and the camera added to the scene
AddCamera ==
  /\ pc = "loop"
  /\ i \in Range(num_views)
  /\ phi' = Elevation(i, num_views)
  /\ camera_pose' = look_at(CameraPos(i, num_views, center, camera_distance),
                            center, up_vector)
  /\ camera_node' = [id |-> nextNode, kind |-> "camera"]
  /\ scene' = SceneAdd(scene, [id |-> nextNode, kind |-> "camera"])
  /\ nextNode' = nextNode + 1
  /\ pc' = "render"
  /\ UNCHANGED <<runs, dirVars, argVars, geomVars, i, transforms, histVars,
                 laVars>>

\* color, depth = renderer.render(scene) returns
RenderOk ==
  /\ pc = "render"
  /\ renderLog' = Append(renderLog, i)
  /\ pc' = "save"
  /\ UNCHANGED <<runs, dirVars, argVars, sceneVars, geomVars, frameVars,
                 produced, wrote, error, failedAt, laVars>>

\* color, depth = renderer.render(scene) raises
RenderFail ==
  /\ pc = "render"
  /\ renderLog' = Append(renderLog, i)
  /\ error' = "RenderFailure"
  /\ failedAt' = i
  /\ pc' = "failed"
  /\ UNCHANGED <<runs, dirVars, argVars, sceneVars, geomVars, frameVars,
                 produced, wrote, laVars>>

\* img.save(img_path) returns
SaveOk ==
  /\ pc = "save"
  /\ files' = files \cup {ImgName(i)}
  /\ produced' = produced \cup {ImgName(i)}
  /\ pc' = "record"
  /\ UNCHANGED <<runs, dirExists, manifest, argVars, sceneVars, geomVars,
                 frameVars, renderLog, wrote, error, failedAt, laVars>>

\* img.save(img_path) raises; a file that was not there is not left behind
SaveFail ==
  /\ pc = "save"
  /\ error' = "IOFailure"
  /\ failedAt' = i
  /\ pc' = "failed"
  /\ UNCHANGED <<runs, dirVars, argVars, sceneVars, geomVars, frameVars,
                 renderLog, produced, wrote, laVars>>

\* transforms.append(transform); scene.remove_node(camera_node); next i
RecordFrame ==
  /\ pc = "record"
  /\ transforms' = Append(transforms, [file_path |-> FilePath(i),
                                       transform_matrix |-> camera_pose])
  /\ scene' = SceneRemove(scene, camera_node)
  /\ i' = NextIndex(i)
  /\ pc' = "loop"
  /\ UNCHANGED <<runs, dirVars, argVars, nextNode, geomVars, phi, camera_pose,
                 camera_node, histVars, laVars>>

\* after the loop: json.dump(transforms_data, f) into transforms.json
WriteManifest ==
  /\ pc = "loop"
  /\ i \notin Range(num_views)
  /\ manifest' = [exists |-> TRUE, frames |-> transforms]
  /\ wrote' = TRUE
  /\ pc' = "cleanup"
  /\ UNCHANGED <<runs, dirExists, files, argVars, sceneVars, geomVars,
                 frameVars, renderLog, produced, error, failedAt, laVars>>

\* renderer.delete(), and the return
Cleanup ==
  /\ pc = "cleanup"
  /\ pc' = "done"
  /\ UNCHANGED <<runs, dirVars, argVars, sceneVars, geomVars, frameVars,
                 histVars, laVars>>

Next ==
  \/ Begin
  \/ LoadOk
  \/ LoadFail
  \/ Setup
  \/ AddCamera
  \/ RenderOk
  \/ RenderFail
  \/ SaveOk
  \/ SaveFail
  \/ RecordFrame
  \/ WriteManifest
  \/ Cleanup

Spec == Init /\ [][Next]_vars

\* ------------------------------------------------- look_at called directly
Grid == (-GridMax) .. GridMax

GridVecs == {FVec(x * Scale, y * Scale, z * Scale) : x \in Grid, y \in Grid, z \in Grid}

\* up directions: the axes, two diagonals and the zero vector
UpVecs == {FVec(0, 0, 1), FVec(0, 1, 0), FVec(1, 0, 0), FVec(0, 0, -1),
           FVec(1, 1, 0), FVec(1, 1, 1), FVec(0, 0, 0)}

InitLA ==
  /\ pc = "idle" /\ runs = 0
  /\ dirExists = FALSE /\ files = {} /\ manifest = NoManifest
  /\ num_views = 0 /\ asset = NoAsset
  /\ RunReset
  /\ la_pc = "call"
  /\ la_eye \in GridVecs /\ la_target \in GridVecs /\ la_up \in UpVecs
  /\ la_result = NoPose

\* look_at(eye, target, up) runs to its return statement
LookAtReturn ==
  /\ la_pc = "call"
  /\ la_result' = look_at(la_eye, la_target, la_up)
  /\ la_pc' = "returned"
  /\ UNCHANGED <<pc, runs, dirVars, argVars, sceneVars, geomVars, frameVars,
                 histVars, la_eye, la_target, la_up>>

NextLA == LookAtReturn

SpecLA == InitLA /\ [][NextLA]_vars

\* =============================================================== claims
\* the positions of one frame iteration after the pose is computed
FramePcs == {"render", "save", "record"}

\* the positions from the first loop test to the return
LoopPcs == {"loop", "render", "save", "record", "cleanup", "done"}

\* the run was aborted by a failure inside a frame iteration
FrameAbort == pc = "failed" /\ failedAt >= 0

\* every frame record of transforms.json names a file of output_dir
ManifestImagesExist ==
  manifest.exists =>
    \A k \in 1..Len(manifest.frames) :
      Resolve(manifest.frames[k].file_path) \in files

\* C1: in every state of a run, aborted runs included, each frame record of
\* an existing transforms.json names an image file that exists in the
\* output directory, and a run has written transforms.json only after it
\* rendered and saved all num_views frames.
C1_ManifestNamesExistingImages ==
  /\ ManifestImagesExist
  /\ wrote => /\ Len(renderLog) = num_views
              /\ \A j \in 0..(num_views - 1) : ImgName(j) \in produced

\* an aborted run in a directory that holds a manifest with frame records
C1_Witness ==
  /\ FrameAbort /\ failedAt >= 1
  /\ manifest.exists /\ Len(manifest.frames) >= 2

\* C2: after a render or save failure on frame i the run has not retried
\* frame i nor rendered a later frame, and the output directory holds at
\* most the images of the frames before i and no transforms.json, whatever
\* the directory held when the run started.
C2_AbortLeavesNoManifest ==
  FrameAbort =>
    /\ ~manifest.exists
    /\ files \subseteq {ImgName(j) : j \in 0..(failedAt - 1)}
    /\ \A k \in 1..Len(renderLog) : renderLog[k] <= failedAt
    /\ Cardinality({k \in 1..Len(renderLog) : renderLog[k] = failedAt}) <= 1

\* C3: a completed run with num_views = N > 0 leaves a manifest of exactly
\* N frame records, has produced exactly N image files, and each record's
\* file_path names one of the produced images.
C3_ManifestMatchesImages ==
  (pc \in {"cleanup", "done"} /\ num_views > 0) =>
    /\ manifest.exists
    /\ Len(manifest.frames) = num_views
    /\ Cardinality(produced) = num_views
    /\ \A k \in 1..Len(manifest.frames) :
         Resolve(manifest.frames[k].file_path) \in produced

C3_Witness == pc = "done" /\ num_views = MaxViews /\ runs = MaxRuns

\* all vertices of the loaded mesh are identical
AllSame(vs) == Len(vs) > 0 /\ \A j \in 1..Len(vs) : vs[j] = vs[1]

\* C4: a run on a mesh whose vertices are all identical ends with a
\* DegenerateGeometry error before any frame is rendered, produces no image
\* file and writes no manifest.
C4_DegenerateGeometryRejected ==
  (pc \in LoopPcs \cup {"failed"} /\ AllSame(mesh.vertices)) =>
    /\ renderLog = <<>>
    /\ produced = {}
    /\ ~wrote
    /\ pc \notin {"cleanup", "done"}
    /\ pc = "failed" => error = "DegenerateGeometry"

\* the pose of frame k of the current run
PoseOf(k) ==
  look_at(CameraPos(k, num_views, center, camera_distance), center, up_vector)

\* C5: frames are rendered one at a time in the order 0, 1, ..., N-1, no
\* index skipped or repeated; distinct indices have distinct image names;
\* on completion the k-th frame record of the manifest is that of frame k.
C5_FramesInIndexOrder ==
  /\ renderLog = [k \in 1..Len(renderLog) |-> k - 1]
  /\ pc = "render" => i = Len(renderLog)
  /\ pc \in {"save", "record"} => i = Len(renderLog) - 1
  /\ \A a \in Range(num_views), b \in Range(num_views) :
       a # b => ImgName(a) # ImgName(b)
  /\ (pc \in {"cleanup", "done"} /\ num_views > 0) =>
       /\ Len(renderLog) = num_views
       /\ Len(manifest.frames) = num_views
       /\ \A k \in Range(num_views) :
            /\ manifest.frames[k + 1].file_path = FilePath(k)
            /\ manifest.frames[k + 1].transform_matrix = PoseOf(k)

C5_Witness == pc = "done" /\ num_views = MaxViews

\* up is parallel to target - eye (the zero vector included)
UpParallel(eye, target, up) == CrossU(VSub(target, eye), up, 1) = Zero

\* C6: look_at called with eye = target, or with up parallel to
\* target - eye, fails with DegenerateCameraBasis and returns no matrix.
C6_DegenerateBasisRejected ==
  (la_pc # "call" /\ (la_eye = la_target \/ UpParallel(la_eye, la_target, la_up)))
    => la_pc = "DegenerateCameraBasis"

PoseTol == 5 * Scale

Det3(a, b, c) ==
  a[1] * (b[2] * c[3] - b[3] * c[2]) - a[2] * (b[1] * c[3] - b[3] * c[1])
    + a[3] * (b[1] * c[2] - b[2] * c[1])

\* the rotation block of m has orthogonal unit columns and determinant +1
Orthonormal(m) ==
  /\ ~PoseHasNaN(m)
  /\ Abs(Dot(m.s.c, m.u.c)) <= PoseTol
  /\ Abs(Dot(m.s.c, m.nf.c)) <= PoseTol
  /\ Abs(Dot(m.u.c, m.nf.c)) <= PoseTol
  /\ Abs(NormSq(m.s.c) - Scale * Scale) <= PoseTol
  /\ Abs(NormSq(m.u.c) - Scale * Scale) <= PoseTol
  /\ Abs(NormSq(m.nf.c) - Scale * Scale) <= PoseTol
  /\ Abs(Det3(m.s.c, m.u.c, m.nf.c) - Scale * Scale * Scale) <= PoseTol * Scale

\* C8: every pose the trajectory generates has a rotation block with
\* pairwise orthogonal unit columns and determinant +1, within tolerance.
C8_PosesOrthonormal ==
  /\ pc \in FramePcs => Orthonormal(camera_pose)
  /\ \A k \in 1..Len(transforms) : Orthonormal(transforms[k].transform_matrix)

\* C9: at every render call the scene holds exactly one camera node, the
\* current frame's; at the start of every iteration and after the last one
\* it holds none; the mesh and the two lights added before the loop are in
\* the scene throughout and are never removed or added again.
C9_OneTransientCamera ==
  /\ pc = "render" => (Cameras(scene) = {camera_node}
                        /\ camera_node.kind = "camera")
  /\ pc \in {"loop", "cleanup", "done"} => Cameras(scene) = {}
  /\ (pc \in LoopPcs \/ FrameAbort) => scene \ Cameras(scene) = BaseScene

\* the render call of a frame after the first
C9_Witness == pc = "render" /\ i >= 1 /\ Len(renderLog) = i

\* the sequential faces (3k, 3k+1, 3k+2) over n vertices
SequentialFaces(n) == [k \in 1..(n \div 3) |-> <<3 * k - 3, 3 * k - 2, 3 * k - 1>>]

\* C10: with the position buffer absent the loader returns a mesh of the
\* single vertex (0,0,0) without failing, with an index buffer and without
\* one (the faces then being the sequential ones).
C10_OriginFallbackLoads ==
  (~asset.posPresent /\ pc \notin {"idle", "load"}) =>
    /\ error # "ValueError"
    /\ mesh.vertices = <<Origin>>
    /\ asset.idxKind # "buffer" => mesh.faces = SequentialFaces(1)

====
